---- MODULE Spec2Model ----
(***************************************************************************)
(* State-machine model of src/app.js: the in-browser health-assistant chat *)
(* (session lifecycle, promotion into the persisted history, delayed bot   *)
(* replies and the profile side effect).                                   *)
(*                                                                         *)
(* Representation.                                                         *)
(*   - A string the program computes with (message text, description, id) *)
(*     is a finite sequence of pieces (characters, digits or literal       *)
(*     fragments), '' being << >>; a string it only compares or copies     *)
(*     (category, title, name) is a TLA+ string, '' being "".              *)
(*   - null is << >> and an object reference is a one-element sequence.    *)
(*   - A localStorage item is a record [kind, value]: kind "none" (no such *)
(*     key), "json" (text written by JSON.stringify, value is what         *)
(*     JSON.parse returns for it) or "garbage" (text JSON.parse rejects).  *)
(*   - Time is one clock, now, in milliseconds; Date.now(), new Date() and *)
(*     the timer deadlines read it.                                        *)
(*   - The markup is not part of src/.  The model reads the listeners of   *)
(*     lines 35-48 as follows: the option cards belong to the initial      *)
(*     screen, the profile form and back-to-options to the profile screen, *)
(*     the message input, send and back-from-chat to the chat screen; the  *)
(*     history list, new-chat and delete-history controls are never hidden *)
(*     by the code (the three show* functions toggle only the three        *)
(*     screens, and sendMessage re-renders the list while the chat screen  *)
(*     is shown), so they are usable on every screen.  The initial screen  *)
(*     is the one displayed before init runs.                              *)
(***************************************************************************)
EXTENDS Integers, Sequences, FiniteSets

\* ------------------------------------------------------------------ bounds

\* Last clock value the model explores (ms).
MaxTime == 1000

\* Largest number of startNewChat calls explored.
MaxChats == 2

\* Largest number of accepted sendMessage calls (timers created) explored.
MaxTimers == 2

\* ------------------------------------------------------- program constants

\* setTimeout(..., 1000) in generateBotResponse.
ReplyDelay == 1000

\* Amount by which one step of the clock advances (ms): one reply delay, so
\* that events fall before a deadline or at it.
TickStep == ReplyDelay

\* ------------------------------------------------------------------ inputs

Categories == {"medical", "checkup", "learning"}

\* Values of the message input when send is clicked.
Texts == { << >>, <<" ">>, <<" ", "a", " ">> }

\* Values of the profile form.
Names == {"Ann"}
Ages == {"30"}
Sexes == {"female"}
InitialDescriptions == { <<"asthma">> }

\* A profile record written by an earlier run of the program.
StoredProfile ==
    [name |-> "Bob", age |-> "41", sex |-> "male",
     description |-> << >>, updatedAt |-> [iso |-> 0]]

\* ----------------------------------------------------------------- helpers

\* Date.prototype.toISOString of the time t.
ISO(t) == [iso |-> t]

\* new Date(isoString) - the number a date string parses back to.
ParseDate(s) == s.iso

\* Date.prototype.toLocaleString of the time t.
LocaleString(t) == [locale |-> t]

RECURSIVE ToString(_)
\* Number.prototype.toString: the decimal digits of a non-negative integer.
ToString(n) ==
    IF n < 10 THEN <<n>> ELSE ToString(n \div 10) \o <<n % 10>>

IsSpace(c) == c = " "

RECURSIVE TrimStart(_)
TrimStart(s) ==
    IF s # << >> /\ IsSpace(Head(s)) THEN TrimStart(Tail(s)) ELSE s

RECURSIVE TrimEnd(_)
TrimEnd(s) ==
    IF s # << >> /\ IsSpace(s[Len(s)])
    THEN TrimEnd(SubSeq(s, 1, Len(s) - 1))
    ELSE s

\* A mutant of Trim: the input is taken as typed.
TrimNone(s) == s

\* String.prototype.trim.
Trim(s) == TrimEnd(TrimStart(s))

\* JSON.stringify of a value made of strings, arrays and plain objects.
Stringify(v) == [kind |-> "json", value |-> v]

NoItem == [kind |-> "none", value |-> << >>]
Garbage == [kind |-> "garbage", value |-> << >>]

\* JSON.parse throws a SyntaxError on this item.
ParseThrows(item) == item.kind = "garbage"

\* chatHistory.filter(chat => chat.id !== chatId).
WithoutId(chatHistory, chatId) ==
    LET F[i \in 0..Len(chatHistory)] ==
            IF i = 0 THEN << >>
            ELSE IF chatHistory[i].id # chatId
                 THEN Append(F[i - 1], chatHistory[i])
                 ELSE F[i - 1]
    IN  F[Len(chatHistory)]

\* chatHistory.find(chat => chat.id === chatId) / some(...): the index of the
\* first entry with the id, 0 when there is none.
FindById(chatHistory, chatId) ==
    IF \E i \in 1..Len(chatHistory) : chatHistory[i].id = chatId
    THEN CHOOSE i \in 1..Len(chatHistory) :
            /\ chatHistory[i].id = chatId
            /\ \A j \in 1..(i - 1) : chatHistory[j].id # chatId
    ELSE 0

\* One step of a stable descending sort on createdAt: e goes after every
\* element that is not older than it.
InsertByDate(sorted, e) ==
    LET k == Cardinality({i \in 1..Len(sorted) :
                 ParseDate(sorted[i].createdAt) >= ParseDate(e.createdAt)})
    IN  SubSeq(sorted, 1, k) \o <<e>> \o SubSeq(sorted, k + 1, Len(sorted))

\* chatHistory.sort((a, b) => new Date(b.createdAt) - new Date(a.createdAt)).
SortByCreatedAtDesc(h) ==
    LET F[i \in 0..Len(h)] ==
            IF i = 0 THEN << >> ELSE InsertByDate(F[i - 1], h[i])
    IN  F[Len(h)]

\* The data-chat-id of the items renderHistoryList builds, top to bottom.
RenderedIds(h) ==
    LET s == SortByCreatedAtDesc(h) IN [i \in 1..Len(s) |-> s[i].id]

\* chatTitle.textContent set by handleOptionSelect.
TitleOf(option) ==
    CASE option = "medical" -> "Medical Advice"
      [] option = "checkup" -> "Health Checkup"
      [] option = "learning" -> "Learning"

\* profile?.name || 'there'
NameOrThere(p) == IF p # << >> /\ p[1].name # "" THEN p[1].name ELSE "there"

\* initialBotMessage of startNewChat.
Greeting(type, p) ==
    CASE type = "medical" ->
            <<"Hello ", NameOrThere(p),
              ", I'm here to provide general medical advice. Please describe your symptoms or concerns.">>
      [] type = "checkup" ->
            <<"Hello ", NameOrThere(p),
              ", let's do a health checkup. I'll ask you some questions about your health.">>
      [] type = "learning" ->
            <<"Hello! What would you like to learn about today?">>
      [] OTHER -> << >>

\* The canned replies of generateBotResponse.
MedicalReply ==
    <<"I understand your concern. While I can't diagnose, I recommend monitoring your symptoms. If they persist or worsen, please consult a healthcare professional.">>
CheckupReply ==
    <<"Thanks for that information. Based on what you've shared, I suggest keeping track of these symptoms and discussing them with your doctor during your next visit.">>
LearningReply ==
    <<"That's an interesting topic! Here's some general information about it: [Sample educational content would go here].">>
DefaultReply ==
    <<"I'm here to help. Can you tell me more about what you need?">>

\* A mutant of the response table: every category asks for a profile update.
ResponsePolicyAlways(type) ==
    [botResponse |->
        CASE type = "medical" -> MedicalReply
          [] type = "checkup" -> CheckupReply
          [] type = "learning" -> LearningReply
          [] OTHER -> DefaultReply,
     updateProfileDescription |-> TRUE]

\* The switch of generateBotResponse: canned reply and profile-update flag.
ResponsePolicy(type) ==
    CASE type = "medical" ->
            [botResponse |-> MedicalReply,
             updateProfileDescription |-> TRUE]
      [] type = "checkup" ->
            [botResponse |-> CheckupReply,
             updateProfileDescription |-> TRUE]
      [] type = "learning" ->
            [botResponse |-> LearningReply,
             updateProfileDescription |-> FALSE]
      [] OTHER ->
            [botResponse |-> DefaultReply,
             updateProfileDescription |-> FALSE]

\* The delay generateBotResponse passes to setTimeout.
TimerDelay(userMessage) == ReplyDelay

\* The botMessage object built in the timer callback.
BotMessage(content, t) ==
    [sender |-> "bot", content |-> content, timestamp |-> ISO(t)]

\* The userMessage object built in sendMessage.
UserMessage(content, t) ==
    [sender |-> "user", content |-> content, timestamp |-> ISO(t)]

\* ------------------------------------------------------------------- state

\* The text is empty or holds only white space.
IsBlank(text) == \A i \in 1..Len(text) : text[i] = " "

VARIABLES
    currentChatType,  \* let currentChatType: '' or the category chosen
    currentChatId,    \* let currentChatId: '' or the id of the chat shown
    currentChat,      \* let currentChat: null or the working copy of a chat
    profile,          \* let profile: null or the profile object
    profileItem,      \* localStorage item 'healthAssistantProfile'
    historyItem,      \* localStorage item 'healthAssistantChatHistory'
    screen,           \* which of the three screens is displayed
    chatTitle,        \* chatTitle.textContent
    historyList,      \* ids of the items in the rendered history list
    timers,           \* the pending setTimeout callbacks with what they captured
    nextTimer,        \* number of timers created so far (the next timer handle)
    now,              \* the clock
    phase,            \* "load" before DOMContentLoaded, "run" after init ran
    listening,        \* init has attached the event listeners
    uncaught,         \* the first handler that ended in an uncaught exception
    chatsStarted,     \* number of startNewChat calls so far
    startedIds,       \* the ids startNewChat has allocated so far
    cur,              \* history of the working copy: how it came to be current
    delivered,        \* handles of the timers that fired, in firing order
    blankSend         \* TRUE right after a sendMessage call whose input was
                      \* empty or white space, FALSE after any other step

vars ==
    <<currentChatType, currentChatId, currentChat, profile, profileItem,
      historyItem, screen, chatTitle, historyList, timers, nextTimer, now,
      phase, listening, uncaught, chatsStarted, startedIds, cur, delivered,
      blankSend>>

\* What the program and its storage hold, without the clock and the
\* bookkeeping of the model.
programState ==
    <<currentChatType, currentChatId, currentChat, profile, profileItem,
      historyItem, screen, chatTitle, historyList, timers>>

\* getChatHistory, on an item JSON.parse accepts.
GetChatHistory(item) == IF item.kind = "json" THEN item.value ELSE << >>

\* What renderHistoryList leaves in the list: it throws before touching the
\* list when the stored history does not parse.
RenderHistoryList(item, old) ==
    IF ParseThrows(item) THEN old ELSE RenderedIds(GetChatHistory(item))

\* The handler h ends normally, or with an uncaught exception when threw.
Outcome(h, threw) ==
    uncaught' = IF threw /\ uncaught = << >> THEN <<h>> ELSE uncaught

\* A handler other than sendMessage ends, normally or not.
Handled(h, threw) ==
    /\ Outcome(h, threw)
    /\ blankSend' = FALSE

\* The state before the page has loaded, on a device whose storage is what
\* the program itself left there: nothing, or a saved profile.
InitOf(profileItems, historyItems) ==
    /\ currentChatType = ""
    /\ currentChatId = << >>
    /\ currentChat = << >>
    /\ profile = << >>
    /\ profileItem \in profileItems
    /\ historyItem \in historyItems
    /\ screen = "initial"
    /\ chatTitle = ""
    /\ historyList = << >>
    /\ timers = {}
    /\ nextTimer = 0
    /\ now = 0
    /\ phase = "load"
    /\ listening = FALSE
    /\ uncaught = << >>
    /\ chatsStarted = 0
    /\ startedIds = {}
    /\ cur = [viaStart |-> FALSE, fresh |-> TRUE, accepted |-> 0,
              overlapped |-> FALSE]
    /\ delivered = << >>
    /\ blankSend = FALSE

Init == InitOf({NoItem, Stringify(<<StoredProfile>>)}, {NoItem})

\* The same device with one or both items overwritten by text that is not
\* JSON.
InitCorrupt ==
    /\ InitOf({NoItem, Stringify(<<StoredProfile>>), Garbage}, {NoItem, Garbage})
    /\ Garbage \in {profileItem, historyItem}

\* ----------------------------------------------------------------- actions

\* showInitialScreen, with item the stored history at that time: the
\* assignments, then renderHistoryList.
ShowInitialScreen(item) ==
    /\ screen' = "initial"
    /\ currentChatType' = ""
    /\ currentChatId' = << >>
    /\ historyList' = RenderHistoryList(item, historyList)

\* init, the DOMContentLoaded handler.  loadProfile runs before the listeners
\* are attached, so an exception in it leaves the page without listeners.
init ==
    /\ phase = "load"
    /\ phase' = "run"
    /\ IF ParseThrows(profileItem)
       THEN /\ Handled("init", TRUE)
            /\ UNCHANGED <<profile, listening, screen, currentChatType,
                           currentChatId, historyList>>
       ELSE /\ profile' = IF profileItem.kind = "json"
                          THEN profileItem.value ELSE profile
            /\ listening' = TRUE
            /\ IF profile' # << >>
               THEN /\ historyList' = RenderHistoryList(historyItem, historyList)
                    /\ UNCHANGED <<screen, currentChatType, currentChatId>>
               ELSE ShowInitialScreen(historyItem)
            /\ Handled("init", ParseThrows(historyItem))
    /\ UNCHANGED <<currentChat, profileItem, historyItem, chatTitle,
                   timers, nextTimer, now, chatsStarted, startedIds, cur,
                   delivered>>

\* startNewChat, for the category type, title text title and profile p.
StartNewChat(type, title, p) ==
    /\ chatsStarted < MaxChats
    /\ chatsStarted' = chatsStarted + 1
    /\ startedIds' = startedIds \cup {ToString(now)}
    /\ currentChatId' = ToString(now)
    /\ currentChat' =
          << [id |-> ToString(now),
              type |-> type,
              title |-> title,
              createdAt |-> ISO(now),
              messages |-> << BotMessage(Greeting(type, p), now) >>] >>
    /\ screen' = "chat"
    /\ cur' = [viaStart |-> TRUE, fresh |-> ToString(now) \notin startedIds,
               accepted |-> 0, overlapped |-> FALSE]

\* A mutant of the profile gate: only the medical category asks for a profile.
ProfileRequiredMedicalOnly(option, p) == option = "medical" /\ p = << >>

\* The gate of handleOptionSelect: (option === 'medical' || option ===
\* 'checkup') && !profile.
ProfileRequired(option, p) == option \in {"medical", "checkup"} /\ p = << >>

\* handleOptionSelect: a click on the option card of the given category.
handleOptionSelect(option) ==
    /\ phase = "run" /\ listening /\ screen = "initial"
    /\ currentChatType' = option
    /\ chatTitle' = TitleOf(option)
    /\ IF ProfileRequired(option, profile)
       THEN /\ screen' = "profile"
            /\ UNCHANGED <<currentChatId, currentChat, chatsStarted, startedIds, cur>>
       ELSE StartNewChat(option, TitleOf(option), profile)
    /\ Handled("handleOptionSelect", FALSE)
    /\ UNCHANGED <<profile, profileItem, historyItem, historyList,
                   timers, nextTimer, now, phase, listening,
                   delivered>>

\* handleProfileSubmit: the profile form is submitted with these values.
handleProfileSubmit(name, age, sex, description) ==
    /\ phase = "run" /\ listening /\ screen = "profile"
    /\ profile' = << [name |-> name, age |-> age, sex |-> sex,
                      description |-> description,
                      updatedAt |-> ISO(now)] >>
    /\ profileItem' = Stringify(profile')
    /\ StartNewChat(currentChatType, chatTitle, profile')
    /\ Handled("handleProfileSubmit", FALSE)
    /\ UNCHANGED <<currentChatType, historyItem, chatTitle, historyList,
                   timers, nextTimer, now, phase, listening,
                   delivered>>

\* A click on new-chat (any screen): showInitialScreen.
newChatClick ==
    /\ phase = "run" /\ listening
    /\ ShowInitialScreen(historyItem)
    /\ Handled("showInitialScreen", ParseThrows(historyItem))
    /\ UNCHANGED <<currentChat, profile, profileItem, historyItem, chatTitle,
                   timers, nextTimer, now, phase, listening,
                   chatsStarted, startedIds, cur, delivered>>

\* A click on back-to-options (profile screen): showInitialScreen.
backToOptionsClick ==
    /\ phase = "run" /\ listening /\ screen = "profile"
    /\ ShowInitialScreen(historyItem)
    /\ Handled("showInitialScreen", ParseThrows(historyItem))
    /\ UNCHANGED <<currentChat, profile, profileItem, historyItem, chatTitle,
                   timers, nextTimer, now, phase, listening,
                   chatsStarted, startedIds, cur, delivered>>

\* handleBackFromChat: a click on back-from-chat (chat screen).
handleBackFromChat ==
    /\ phase = "run" /\ listening /\ screen = "chat"
    /\ IF currentChat # << >> /\ Len(currentChat[1].messages) > 1
       THEN /\ UNCHANGED historyItem
            /\ ShowInitialScreen(historyItem)
            /\ Handled("handleBackFromChat", ParseThrows(historyItem))
       ELSE IF ParseThrows(historyItem)
       THEN /\ Handled("handleBackFromChat", TRUE)
            /\ UNCHANGED <<historyItem, screen, currentChatType,
                           currentChatId, historyList>>
       ELSE /\ historyItem' =
                  Stringify(WithoutId(GetChatHistory(historyItem),
                                      currentChatId))
            /\ ShowInitialScreen(historyItem')
            /\ Handled("handleBackFromChat", FALSE)
    /\ UNCHANGED <<currentChat, profile, profileItem, chatTitle, 
                   timers, nextTimer, now, phase, listening, chatsStarted, startedIds,
                   cur, delivered>>

\* The timer generateBotResponse schedules for userMessage, sent at time t
\* in a chat of category type whose id is chatId.  The callback captures
\* botResponse, updateProfileDescription and userMessage; forChat and forType
\* record the chat that was current when it was scheduled.
NewTimer(handle, t, type, chatId, userMessage) ==
    [id |-> handle,
     delay |-> TimerDelay(userMessage),
     due |-> t + TimerDelay(userMessage),
     botResponse |-> ResponsePolicy(type).botResponse,
     updateProfileDescription |-> ResponsePolicy(type).updateProfileDescription,
     userMessage |-> userMessage,
     forChat |-> chatId,
     forType |-> type]

\* A mutant of the save in sendMessage: the chat is pushed every time.
PromoteAlways(chatHistory, chatId, chat) == Append(chatHistory, chat)

\* A mutant of the save in sendMessage: a chat that has an entry is not saved
\* again.
PromoteOnce(chatHistory, chatId, chat) ==
    IF FindById(chatHistory, chatId) = 0
    THEN Append(chatHistory, chat)
    ELSE chatHistory

\* The history sendMessage saves: the chat is pushed when no entry has its
\* id, else the first entry with that id takes over the chat's messages.
PromoteOrUpdate(chatHistory, chatId, chat) ==
    LET k == FindById(chatHistory, chatId)
    IN  IF k = 0
        THEN Append(chatHistory, chat)
        ELSE [chatHistory EXCEPT ![k].messages = chat.messages]

\* sendMessage: a click on send, or Enter in the message input (chat screen),
\* while the input holds text.  The input is cleared when the message is
\* accepted.
sendMessage(text) ==
    /\ phase = "run" /\ listening /\ screen = "chat"
    /\ blankSend' = IsBlank(text)
    /\ LET messageText == Trim(text) IN
       IF messageText = << >>
       THEN /\ Outcome("sendMessage", FALSE)
            /\ UNCHANGED <<currentChat, historyItem, historyList, timers,
                           nextTimer, cur>>
       ELSE IF currentChat = << >>
       THEN /\ Outcome("sendMessage", TRUE)
            /\ UNCHANGED <<currentChat, historyItem, historyList, timers,
                           nextTimer, cur>>
       ELSE
         LET chat == [currentChat[1] EXCEPT
                        !.messages = Append(@, UserMessage(messageText, now))]
         IN
         /\ nextTimer < MaxTimers /\ cur.accepted < MaxTimers
         /\ currentChat' = <<chat>>
         /\ cur' = [cur EXCEPT !.accepted = @ + 1,
                               !.overlapped = @ \/ timers # {}]
         /\ IF ParseThrows(historyItem)
            THEN /\ Outcome("sendMessage", TRUE)
                 /\ UNCHANGED <<historyItem, historyList, timers,
                                nextTimer>>
            ELSE
              LET chatHistory == GetChatHistory(historyItem)
                  k == FindById(chatHistory, currentChatId)
              IN
              /\ historyItem' =
                    Stringify(PromoteOrUpdate(chatHistory, currentChatId, chat))
              /\ historyList' =
                    IF k = 0
                    THEN RenderHistoryList(historyItem', historyList)
                    ELSE historyList
              /\ timers' = timers \cup
                    {NewTimer(nextTimer, now, currentChatType, currentChatId,
                              messageText)}
              /\ nextTimer' = nextTimer + 1
              /\ Outcome("sendMessage", FALSE)
    /\ UNCHANGED <<currentChatType, currentChatId, profile, profileItem,
                   screen, chatTitle, now, phase, listening, chatsStarted, startedIds,
                   delivered>>

\* A mutant of updateProfileWithChatInfo: the description is started afresh.
UpdateProfileReset(p, userMessage, t) ==
    [p EXCEPT !.description = << >>, !.updatedAt = ISO(t)]

\* A mutant of updateProfileWithChatInfo: the record is appended twice.
UpdateProfileTwice(p, userMessage, t) ==
    [p EXCEPT
       !.description = @ \o <<LocaleString(t), ": ">> \o userMessage
                         \o <<"\n\n---\n\n", LocaleString(t), ": ">>
                         \o userMessage,
       !.updatedAt = ISO(t)]

\* updateProfileWithChatInfo: the profile after the append of userMessage at
\* time t.
UpdateProfileWithChatInfo(p, userMessage, t) ==
    LET separator == IF p.description # << >> THEN <<"\n\n---\n\n">> ELSE << >>
    IN  [p EXCEPT
           !.description = @ \o separator \o <<LocaleString(t), ": ">>
                             \o userMessage,
           !.updatedAt = ISO(t)]

\* A mutant of the event loop: any timer whose delay has elapsed may run.
CanFireAnyOrder(t) == t.due <= now

\* The event loop may run timer t: its delay has elapsed, and every timer
\* set earlier with a delay not longer than its own has run.
CanFire(t) ==
    /\ t.due <= now
    /\ \A u \in timers : ~(u.id < t.id /\ u.delay <= t.delay)

\* A mutant of the save in the callback: a chat that has no entry is stored.
PushedByCallback(item, chatId, chat) ==
    Stringify(PromoteOrUpdate(GetChatHistory(item), chatId, chat))

\* The history item after the callback's "Update history": the first entry
\* with the id takes the chat's messages and the history is saved; with no
\* such entry nothing is saved.
SavedByCallback(item, chatId, chat) ==
    LET chatHistory == GetChatHistory(item)
        k == FindById(chatHistory, chatId)
    IN  IF k # 0
        THEN Stringify([chatHistory EXCEPT ![k].messages = chat.messages])
        ELSE item

\* The callback generateBotResponse passed to setTimeout, for timer t.
timerCallback(t) ==
    /\ phase = "run"
    /\ CanFire(t)
    /\ timers' = timers \ {t}
    /\ delivered' = Append(delivered, t.id)
    /\ IF currentChat = << >>
       THEN /\ Handled("timerCallback", TRUE)
            /\ UNCHANGED <<currentChat, historyItem, profile, profileItem>>
       ELSE
         LET chat == [currentChat[1] EXCEPT
                        !.messages = Append(@, BotMessage(t.botResponse, now))]
         IN
         /\ currentChat' = <<chat>>
         /\ IF ParseThrows(historyItem)
            THEN /\ Handled("timerCallback", TRUE)
                 /\ UNCHANGED <<historyItem, profile, profileItem>>
            ELSE
              /\ historyItem' = SavedByCallback(historyItem, currentChatId, chat)
              /\ IF t.updateProfileDescription /\ profile # << >>
                 THEN /\ profile' =
                            << UpdateProfileWithChatInfo(profile[1],
                                                         t.userMessage, now) >>
                      /\ profileItem' = Stringify(profile')
                 ELSE UNCHANGED <<profile, profileItem>>
              /\ Handled("timerCallback", FALSE)
    /\ UNCHANGED <<currentChatType, currentChatId, screen, chatTitle,
                   historyList, nextTimer, now, phase,
                   listening, chatsStarted, startedIds, cur>>

\* loadChat: a click on the item of the history list that carries chatId.
loadChat(chatId) ==
    /\ phase = "run" /\ listening
    /\ \E i \in 1..Len(historyList) : historyList[i] = chatId
    /\ IF ParseThrows(historyItem)
       THEN /\ Handled("loadChat", TRUE)
            /\ UNCHANGED <<currentChatId, currentChatType, currentChat,
                           chatTitle, screen, cur>>
       ELSE
         LET chatHistory == GetChatHistory(historyItem)
             k == FindById(chatHistory, chatId)
         IN
         /\ IF k # 0
            THEN /\ currentChatId' = chatId
                 /\ currentChatType' = chatHistory[k].type
                 /\ currentChat' = <<chatHistory[k]>>
                 /\ chatTitle' = chatHistory[k].title
                 /\ screen' = "chat"
                 /\ cur' = [viaStart |-> FALSE, fresh |-> TRUE,
                            accepted |-> 0, overlapped |-> FALSE]
            ELSE UNCHANGED <<currentChatId, currentChatType, currentChat,
                             chatTitle, screen, cur>>
         /\ Handled("loadChat", FALSE)
    /\ UNCHANGED <<profile, profileItem, historyItem, historyList,
                   timers, nextTimer, now, phase, listening,
                   chatsStarted, startedIds, delivered>>

\* deleteAllHistory: a click on delete-history; confirmed is the answer to
\* the confirm dialog.
deleteAllHistory(confirmed) ==
    /\ phase = "run" /\ listening
    /\ IF confirmed
       THEN /\ historyItem' = NoItem
            /\ historyList' = RenderHistoryList(historyItem', historyList)
       ELSE UNCHANGED <<historyItem, historyList>>
    /\ Handled("deleteAllHistory", FALSE)
    /\ UNCHANGED <<currentChatType, currentChatId, currentChat, profile,
                   profileItem, screen, chatTitle, timers,
                   nextTimer, now, phase, listening, chatsStarted, startedIds, cur,
                   delivered>>

\* Time passes.
tick ==
    /\ now + TickStep <= MaxTime
    /\ now' = now + TickStep
    /\ UNCHANGED <<currentChatType, currentChatId, currentChat, profile,
                   profileItem, historyItem, screen, chatTitle, historyList,
                   timers, nextTimer, phase, listening,
                   uncaught, chatsStarted, startedIds, cur, delivered>>
    /\ blankSend' = FALSE

Next ==
    \/ init
    \/ \E option \in Categories : handleOptionSelect(option)
    \/ \E name \in Names, age \in Ages, sex \in Sexes,
          description \in InitialDescriptions :
          handleProfileSubmit(name, age, sex, description)
    \/ newChatClick
    \/ backToOptionsClick
    \/ handleBackFromChat
    \/ \E text \in Texts : sendMessage(text)
    \/ \E t \in timers : timerCallback(t)
    \/ \E chatId \in {historyList[i] : i \in 1..Len(historyList)} :
          loadChat(chatId)
    \/ \E confirmed \in BOOLEAN : deleteAllHistory(confirmed)
    \/ tick

\* The program on a device with intact storage.
Spec == Init /\ [][Next]_vars

\* The program on a device with intact storage, left open: the clock advances
\* and the event loop runs every timer whose delay has elapsed.
SpecLive ==
    /\ Init /\ [][Next]_vars
    /\ WF_vars(tick)
    /\ WF_vars(\E t \in timers : timerCallback(t))

\* The program on a device whose storage holds text that is not JSON.
SpecCorrupt == InitCorrupt /\ [][Next]_vars

\* ------------------------------------------------------------------ claims

\* The stored history as getChatHistory returns it.
History == GetChatHistory(historyItem)

\* Index in the history h of the entry with this id, 0 when there is none.
EntryIndex(h, chatId) == FindById(h, chatId)

\* The step is an accepted sendMessage: only it creates a timer.
SendAccepted == nextTimer' = nextTimer + 1

\* The text of the message an accepted sendMessage step took: the timer it
\* creates captures it.
Sent == (CHOOSE t \in timers' : t \notin timers).userMessage

\* The step is the callback of timer t: only it removes a timer.
Fired(t) == t \in timers /\ t \notin timers'

\* The senders of msgs alternate bot, user, bot, user, ... starting with bot.
Alternates(msgs) ==
    \A i \in 1..Len(msgs) :
        msgs[i].sender = IF i % 2 = 1 THEN "bot" ELSE "user"

\* C1: for a chat created by startNewChat (with an id no earlier chat had),
\* once no reply timer is pending, the chat's message list has length
\* 1 + 2 * (number of user messages accepted in that chat).
C1_LengthAfterReplies ==
    (currentChat # << >> /\ cur.viaStart /\ cur.fresh /\ timers = {})
        => Len(currentChat[1].messages) = 1 + 2 * cur.accepted

\* C2: in a chat created by startNewChat, once no reply timer is pending the
\* senders of the chat's messages alternate bot, user, bot, user, ...
\* starting with bot.  Stated for the chats in which every message was sent
\* while no reply was pending: two sends in a row put two user messages next
\* to each other.
C2_SendersAlternate ==
    (currentChat # << >> /\ cur.viaStart /\ ~cur.overlapped /\ timers = {})
        => Alternates(currentChat[1].messages)

\* C3: the first user message accepted in a chat created by startNewChat adds
\* exactly one entry to the stored history, and that entry has the chat's id;
\* a later accepted message of a chat whose entry is stored, and every
\* delivered reply, leaves the number of entries unchanged.
C3_FirstMessageAddsOneEntry ==
    [][ /\ (SendAccepted /\ cur.viaStart /\ cur.accepted = 0) =>
              LET h == GetChatHistory(historyItem') IN
              /\ Len(h) = Len(History) + 1
              /\ h[Len(h)].id = currentChatId
        /\ (SendAccepted /\ cur.accepted > 0
              /\ EntryIndex(History, currentChatId) # 0) =>
              Len(GetChatHistory(historyItem')) = Len(History)
        /\ (\E t \in timers : Fired(t)) =>
              Len(GetChatHistory(historyItem')) = Len(History) ]_vars

\* C4 (as stated): every user message accepted in a chat that loadChat made
\* current leaves the number of stored entries unchanged and appends the
\* message to the entry with the chat's id.
C4_LoadedChatUpdatesItsEntry ==
    [][ (SendAccepted /\ ~cur.viaStart) =>
            LET h == GetChatHistory(historyItem')
                k == EntryIndex(h, currentChatId)
            IN  /\ Len(h) = Len(History)
                /\ k # 0
                /\ k = EntryIndex(History, currentChatId)
                /\ h[k].messages =
                      Append(History[k].messages,
                             UserMessage(Sent, now)) ]_vars

\* C4 (amended): a user message accepted in a chat that loadChat made current,
\* while the entry with the chat's id is still stored, leaves the number of
\* entries and every other entry unchanged and appends the message to that
\* entry; and a message accepted after the history was deleted stores the
\* chat again as the only entry with its id.
C4_LoadedChatUpdatesStoredEntry ==
    [][ (SendAccepted /\ ~cur.viaStart) =>
            LET h == GetChatHistory(historyItem')
                k == EntryIndex(History, currentChatId)
            IN  IF k # 0
                THEN /\ Len(h) = Len(History)
                     /\ \A i \in 1..Len(h) : i # k => h[i] = History[i]
                     /\ h[k].id = currentChatId
                     /\ h[k].messages =
                           Append(History[k].messages,
                                  UserMessage(Sent, now))
                ELSE /\ Len(h) = Len(History) + 1
                     /\ Cardinality({i \in 1..Len(h) :
                                        h[i].id = currentChatId}) = 1 ]_vars

\* C4 witness: a loaded chat whose stored entry has taken a new user message.
C4_Witness ==
    /\ currentChat # << >> /\ ~cur.viaStart /\ cur.accepted = 1
    /\ EntryIndex(History, currentChatId) # 0
    /\ History[EntryIndex(History, currentChatId)].messages
          = currentChat[1].messages
    /\ Len(currentChat[1].messages) >= 3

\* C5: a sendMessage call whose input is empty or white space changes
\* nothing: the chat, the stored history and profile, the profile object and
\* the pending timers stay as they were.
C5_BlankSendIsNoOp ==
    [][ blankSend' =>
            UNCHANGED <<programState, nextTimer, uncaught, cur,
                        delivered>> ]_vars

\* C5 witness: an empty or white-space send was just made in a chat that already
\* holds a user message and has a reply pending.
C5_Witness ==
    /\ blankSend
    /\ screen = "chat"
    /\ Len(currentChat[1].messages) >= 2
    /\ timers # {}

\* A chat of a category that asks for a profile.
NeedsProfile(chat) == chat.type \in {"medical", "checkup"}

\* C6: choosing medical or checkup while there is no profile shows the
\* profile screen and creates no chat; and in every state a medical or
\* checkup chat (the working copy, or a stored entry) exists only if a
\* profile exists.
C6_ProfileGate ==
    /\ [][ (screen = "initial" /\ profile = << >>
             /\ currentChatType' \in {"medical", "checkup"}) =>
                /\ screen' = "profile"
                /\ UNCHANGED <<currentChat, currentChatId, chatsStarted,
                               historyItem>> ]_vars
    /\ [] ( /\ (currentChat # << >> /\ NeedsProfile(currentChat[1]))
                  => profile # << >>
            /\ \A i \in 1..Len(History) :
                  NeedsProfile(History[i]) => profile # << >> )

\* C6 witness: the profile screen is shown for a checkup request made without
\* a profile, and no chat exists.
C6_Witness ==
    /\ screen = "profile" /\ currentChatType = "checkup"
    /\ profile = << >> /\ currentChat = << >> /\ chatsStarted = 0

\* C7: the reply to a message sent in a learning chat (or with no category)
\* leaves the profile object and its stored copy unchanged, sending leaves
\* them unchanged, and the profile changes only when it is loaded, when the
\* profile form is submitted, or when the reply to a message sent in a
\* medical or checkup chat is delivered.
C7_LearningLeavesProfile ==
    [][ /\ \A t \in timers :
              (Fired(t) /\ t.forType \notin {"medical", "checkup"})
                  => UNCHANGED <<profile, profileItem>>
        /\ SendAccepted => UNCHANGED <<profile, profileItem>>
        /\ (profile' # profile \/ profileItem' # profileItem) =>
              \/ phase = "load"
              \/ screen = "profile" /\ screen' = "chat"
              \/ \E t \in timers :
                    Fired(t) /\ t.forType \in {"medical", "checkup"} ]_vars

\* C7 witness: with a profile present, the reply to a learning message has
\* been delivered into the learning chat.
C7_Witness ==
    /\ profile # << >>
    /\ currentChat # << >> /\ currentChat[1].type = "learning"
    /\ cur.accepted = 1 /\ timers = {} /\ Len(delivered) = 1
    /\ \E i \in 1..Len(currentChat[1].messages) :
          currentChat[1].messages[i].content = LearningReply

\* C8: every accepted message creates exactly one timer, no timer is dropped
\* or runs twice, and the timers run in the order in which they were created.
C8_RepliesInSendOrder ==
    /\ delivered = [i \in 1..Len(delivered) |-> i - 1]
    /\ {t.id : t \in timers} = Len(delivered)..(nextTimer - 1)
    /\ Cardinality(timers) = nextTimer - Len(delivered)

\* C8 witness: two replies were pending together and both have been
\* delivered.
C8_Witness ==
    /\ nextTimer = 2 /\ Len(delivered) = 2 /\ timers = {}
    /\ \E i \in 1..Len(currentChat[1].messages) - 1 :
          /\ currentChat[1].messages[i].sender = "bot"
          /\ currentChat[1].messages[i + 1].sender = "bot"

\* C9: no handler ends in an uncaught exception, whatever the two stored
\* items hold.
C9_NoOperationFails == uncaught = << >>

\* C10: right after an accepted sendMessage the stored entry of the chat ends
\* with the user message; and when the reply to a message is delivered while
\* the entry of the chat it was sent in is stored, that entry takes the reply
\* as its new last message.
C10_HistoryTakesReply ==
    [][ /\ SendAccepted =>
              LET h == GetChatHistory(historyItem')
                  k == EntryIndex(h, currentChatId)
              IN  /\ k # 0
                  /\ h[k].messages[Len(h[k].messages)]
                        = UserMessage(Sent, now)
        /\ \A t \in timers :
              (Fired(t) /\ EntryIndex(History, t.forChat) # 0) =>
                  LET h == GetChatHistory(historyItem')
                      k == EntryIndex(History, t.forChat)
                  IN  /\ Len(h) = Len(History)
                      /\ h[k].id = t.forChat
                      /\ h[k].messages =
                            Append(History[k].messages,
                                   BotMessage(t.botResponse, now)) ]_vars

\* C11: in every state no two entries of the stored history have the same id.
C11_HistoryIdsUnique ==
    \A i, j \in 1..Len(History) : History[i].id = History[j].id => i = j

\* C11 witness: two chats have been promoted, each by its first message.
C11_Witness ==
    /\ Len(History) = 2
    /\ nextTimer = 2
    /\ \A i \in 1..2 : Len(History[i].messages) >= 2

\* The step is a startNewChat call: only it counts a chat.
ChatStarted == chatsStarted' = chatsStarted + 1

\* The entry holds a message the user sent.
HasUserMessage(chat) ==
    \E i \in 1..Len(chat.messages) : chat.messages[i].sender = "user"

\* C12: a chat is not stored before its first user message: startNewChat
\* leaves the stored history as it was, and in every state every entry of the
\* stored history holds at least one user message.
C12_StoredOnlyAfterUserMessage ==
    /\ [][ ChatStarted => GetChatHistory(historyItem') = History ]_vars
    /\ [] (\A i \in 1..Len(History) : HasUserMessage(History[i]))

\* The step closes the chat shown: back-from-chat or new-chat on the chat
\* screen.
ChatClosed == screen = "chat" /\ screen' = "initial"

\* C13: closing a chat (back from chat, or new chat) leaves every entry of the
\* stored history, the chat's own included, exactly as it was.
C13_CloseKeepsHistory ==
    [][ ChatClosed => GetChatHistory(historyItem') = History ]_vars

\* The sequence old is a prefix of the sequence new.
IsPrefix(old, new) ==
    Len(old) <= Len(new) /\ SubSeq(new, 1, Len(old)) = old

\* C14: once a profile exists it stays, and every step leaves its description
\* with the earlier description as a prefix, in the profile object and in its
\* stored copy: the description is never rewritten, truncated or reset.
C14_DescriptionAppendOnly ==
    [][ /\ profile # << >> =>
              /\ profile' # << >>
              /\ IsPrefix(profile[1].description, profile'[1].description)
        /\ profileItem # NoItem =>
              /\ profileItem' # NoItem
              /\ IsPrefix(profileItem.value[1].description,
                          profileItem'.value[1].description) ]_vars

\* C14 witness: a description given in the profile form has taken the record
\* of a message after it.
C14_Witness ==
    /\ profile # << >>
    /\ profile[1].name = "Ann"
    /\ Len(profile[1].description) > Len(<<"asthma">>)
    /\ Len(delivered) >= 1
    /\ profileItem = Stringify(profile)

\* C15: every startNewChat call gives the chat an id that no chat started
\* earlier had and that no entry of the stored history has.
C15_FreshId ==
    [][ ChatStarted =>
            /\ currentChatId' \notin startedIds
            /\ EntryIndex(History, currentChatId') = 0 ]_vars

\* C16: the reply to a message goes only to the chat the message was sent in:
\* when its timer runs while a chat with another id is the working copy, that
\* chat's message list stays as it was, and so does every stored entry with
\* another id.
C16_ReplyStaysInItsChat ==
    [][ \A t \in timers :
          Fired(t) =>
            /\ (currentChat # << >> /\ currentChat[1].id # t.forChat)
                  => currentChat' = currentChat
            /\ LET h == GetChatHistory(historyItem') IN
               /\ Len(h) = Len(History)
               /\ \A i \in 1..Len(h) :
                     History[i].id # t.forChat => h[i] = History[i] ]_vars

\* The record updateProfileWithChatInfo appends for the text at the time now.
ProfileRecord(description, text) ==
    (IF description # << >> THEN <<"\n\n---\n\n">> ELSE << >>)
        \o <<LocaleString(now), ": ">> \o text

\* The pending timers of messages sent in a medical or checkup chat that are
\* due within the explored time.
AwaitingRecord ==
    {t \in timers : t.due <= MaxTime /\ t.forType \in {"medical", "checkup"}}

C18_EntryGrowsByAppending ==
    [][ LET h == GetChatHistory(historyItem') IN
        \A i \in 1..Len(History) :
            LET k == EntryIndex(h, History[i].id) IN
            k # 0 =>
               /\ h[k].type = History[i].type
               /\ h[k].title = History[i].title
               /\ h[k].createdAt = History[i].createdAt
               /\ IsPrefix(History[i].messages, h[k].messages) ]_vars

\* A chat is shown, its id is current and it holds a user message.
ActiveWithUserMessage ==
    /\ screen = "chat" /\ currentChatId # << >> /\ currentChat # << >>
    /\ HasUserMessage(currentChat[1])

HistoryDeleted == historyItem' = NoItem /\ historyItem # NoItem

\* C20: a confirmed deleteAllHistory leaves the stored history empty and the
\* profile, object and stored copy, as it was; and an empty history stays
\* empty under every step but an accepted sendMessage: a reply whose timer
\* was pending when the history was deleted stores nothing when it is
\* delivered.
C20_DeletedHistoryStaysEmpty ==
    [][ /\ HistoryDeleted =>
              /\ GetChatHistory(historyItem') = << >>
              /\ UNCHANGED <<profile, profileItem>>
        /\ (History = << >> /\ ~SendAccepted) =>
              GetChatHistory(historyItem') = << >> ]_vars

\* C20 witness: the history was deleted while a reply was pending, the reply
\* has been delivered into the chat shown, whose id is current, and the
\* history is empty.
C20_Witness ==
    /\ historyItem = NoItem
    /\ screen = "chat" /\ currentChatId # << >>
    /\ nextTimer = 1 /\ Len(delivered) = 1
    /\ Len(currentChat[1].messages) = 3
    /\ currentChat[1].id = currentChatId

====
